---------------------------- MODULE Spec2Model ----------------------------
(***************************************************************************)
(* A model of excel-ai-editor: the normalized workbook, the live grid of   *)
(* the active sheet with its tracked formula map, the change applicators   *)
(* (App.applyChanges and Spreadsheet.applyChanges), the exporter and the   *)
(* /api/chat tool loop with its client.                                    *)
(*                                                                         *)
(* Text is modelled as sequences of one-character strings, so that cell    *)
(* references and formulas are parsed and formatted as the code does it.   *)
(* A 2D data array is the record [rowLen, cells]: rowLen[i] is the length  *)
(* of row i-1 and cells maps <<row, col>> (0-based) to the content of the  *)
(* cells that are not the empty string.                                    *)
(***************************************************************************)
EXTENDS Integers, Sequences, FiniteSets, TLC

\* -------------------------------------------------------------------------
\* Bounds of the model
\* -------------------------------------------------------------------------

\* Operations (changes applied, user edits, sheet switches) per session.
MaxSteps == 2

\* Tool calls the assistant makes in one chat request
MaxToolCalls == 2

\* -------------------------------------------------------------------------
\* Characters, numbers and cell references
\* -------------------------------------------------------------------------

Letters ==
    << "A", "B", "C", "D", "E", "F", "G", "H", "I", "J", "K", "L", "M",
       "N", "O", "P", "Q", "R", "S", "T", "U", "V", "W", "X", "Y", "Z" >>

Digits == << "0", "1", "2", "3", "4", "5", "6", "7", "8", "9" >>

IsUpper(c) == \E i \in DOMAIN Letters : Letters[i] = c

IsDigit(c) == \E i \in DOMAIN Digits : Digits[i] = c

\* c.charCodeAt(0) - 64 for an upper-case letter ("A" is 1)
LetterCode(c) == CHOOSE i \in DOMAIN Letters : Letters[i] = c

DigitVal(c) == (CHOOSE i \in DOMAIN Digits : Digits[i] = c) - 1

\* The empty string; also stands for undefined and null, which the code
\* tests together with '' (falsy).
Empty == << >>

\* parseInt(s, 10) of a string of digits
RECURSIVE parseInt(_)
parseInt(s) ==
    IF s = Empty THEN 0
    ELSE parseInt(SubSeq(s, 1, Len(s) - 1)) * Len(Digits) + DigitVal(s[Len(s)])

\* String(n) of a natural number
RECURSIVE NumToStr(_)
NumToStr(n) ==
    IF n < Len(Digits) THEN << Digits[n + 1] >>
    ELSE NumToStr(n \div Len(Digits)) \o << Digits[(n % Len(Digits)) + 1] >>

RECURSIVE LetterSum(_)
LetterSum(letter) ==
    IF letter = Empty THEN 0
    ELSE LetterSum(SubSeq(letter, 1, Len(letter) - 1)) * Len(Letters)
         + LetterCode(letter[Len(letter)])

columnLetterToIndex(letter) == LetterSum(letter) - 1

RECURSIVE LetterLoop(_, _)
LetterLoop(index, letter) ==
    IF index > 0
    THEN LetterLoop((index - 1) \div Len(Letters),
                    << Letters[((index - 1) % Len(Letters)) + 1] >> \o letter)
    ELSE letter

indexToColumnLetter(index) == LetterLoop(index + 1, Empty)

\* XLSX.utils.encode_cell({r, c}), and the code's indexToColumnLetter(c) + (r + 1)
encode_cell(r, c) == indexToColumnLetter(c) \o NumToStr(r + 1)

\* Length of the longest prefix of s made of characters satisfying Test
RECURSIVE PrefixLen(_, _, _)
PrefixLen(s, i, upper) ==
    IF i <= Len(s) /\ (IF upper THEN IsUpper(s[i]) ELSE IsDigit(s[i]))
    THEN 1 + PrefixLen(s, i + 1, upper)
    ELSE 0

\* ref.match(/^([A-Z]+)(\d+)$/): the number of letters of the match, 0 for null
CellMatch(ref) ==
    LET k == PrefixLen(ref, 1, TRUE)
        d == PrefixLen(ref, k + 1, FALSE)
    IN  IF k > 0 /\ d > 0 /\ k + d = Len(ref) THEN k ELSE 0

\* parseCellReference: ok is FALSE for the null result
parseCellReference(ref) ==
    LET k == CellMatch(ref)
    IN  IF k = 0 THEN [ok |-> FALSE, row |-> 0, col |-> 0]
        ELSE [ok  |-> TRUE,
              row |-> parseInt(SubSeq(ref, k + 1, Len(ref))) - 1,
              col |-> columnLetterToIndex(SubSeq(ref, 1, k))]

\* range.split(':')
RECURSIVE SplitColon(_, _)
SplitColon(s, cur) ==
    IF s = Empty THEN << cur >>
    ELSE IF Head(s) = ":" THEN << cur >> \o SplitColon(Tail(s), Empty)
    ELSE SplitColon(Tail(s), Append(cur, Head(s)))

\* parseRangeReference: always an object; start or end may be the null result
parseRangeReference(range) ==
    LET parts == SplitColon(range, Empty)
    IN  IF Len(parts) = 1
        THEN [start |-> parseCellReference(parts[1]),
              end   |-> parseCellReference(parts[1])]
        ELSE [start |-> parseCellReference(parts[1]),
              end   |-> parseCellReference(parts[2])]

\* formula.startsWith('=') for a truthy formula
IsFormula(s) == s # Empty /\ Head(s) = "="

\* adjustFormulaForRow: formula.replace(/([A-Z]+)(\d+)/g, col + (row + offset - 1))
RECURSIVE AdjustFrom(_, _, _)
AdjustFrom(formula, i, offset) ==
    IF i > Len(formula) THEN Empty
    ELSE LET k == PrefixLen(formula, i, TRUE)
             d == PrefixLen(formula, i + k, FALSE)
         IN  IF k > 0 /\ d > 0
             THEN SubSeq(formula, i, i + k - 1)
                  \o NumToStr(parseInt(SubSeq(formula, i + k, i + k + d - 1)) + offset - 1)
                  \o AdjustFrom(formula, i + k + d, offset)
             ELSE IF k > 0
             THEN SubSeq(formula, i, i + k - 1) \o AdjustFrom(formula, i + k, offset)
             ELSE << formula[i] >> \o AdjustFrom(formula, i + 1, offset)

adjustFormulaForRow(formula, offset) == AdjustFrom(formula, 1, offset)

\* -------------------------------------------------------------------------
\* 2D data arrays
\* -------------------------------------------------------------------------

Max(a, b) == IF a >= b THEN a ELSE b

\* A function given by a rule, as an explicit map or sequence (the same
\* function; TLC then evaluates the rule once for every argument)
AsMap(f) == f @@ << >>

AsSeq(f) == f \o << >>

With(f, k, v) == (k :> v) @@ f

Without(f, k) == AsMap([x \in DOMAIN f \ {k} |-> f[x]])

\* data[r][c], '' where the array has nothing
GetCell(data, r, c) ==
    IF <<r, c>> \in DOMAIN data.cells THEN data.cells[<<r, c>>] ELSE Empty

\* hot.countRows(), hot.countCols() of a grid bound to data
countRows(data) == Len(data.rowLen)

countCols(data) == IF data.rowLen = << >> THEN 0 ELSE data.rowLen[1]

PutCell(cells, r, c, value) ==
    IF value = Empty THEN Without(cells, <<r, c>>) ELSE With(cells, <<r, c>>, value)

\* App.applyChanges on a plain array:
\*   while (data.length <= row) data.push([])
\*   while (data[row].length <= col) data[row].push('')
\*   data[row][col] = value
ArrayWrite(data, row, col, value) ==
    LET grown == AsSeq([i \in 1..Max(Len(data.rowLen), row + 1) |->
                          IF i <= Len(data.rowLen) THEN data.rowLen[i] ELSE 0])
    IN  [rowLen |-> [grown EXCEPT ![row + 1] = Max(@, col + 1)],
         cells  |-> PutCell(data.cells, row, col, value)]

\* hot.setDataAtCell(row, col, value, source): writes the source data, which
\* Handsontable binds by reference; rows and columns are created when the
\* cell lies outside the grid.
setDataAtCell(data, row, col, value) ==
    LET cols == Max(countCols(data), col + 1)
    IN  [rowLen |-> IF row < countRows(data) /\ col < countCols(data)
                    THEN data.rowLen
                    ELSE AsSeq([i \in 1..Max(countRows(data), row + 1) |->
                                  IF i <= countRows(data)
                                  THEN (IF col >= countCols(data)
                                        THEN Max(data.rowLen[i], cols)
                                        ELSE data.rowLen[i])
                                  ELSE cols]),
         cells  |-> PutCell(data.cells, row, col, value)]

InsertAt(seq, p, x) == SubSeq(seq, 1, p) \o << x >> \o SubSeq(seq, p + 1, Len(seq))

RemoveAt(seq, p) == SubSeq(seq, 1, p) \o SubSeq(seq, p + 2, Len(seq))

\* Keys of a cell map after a row (axis 1) or column (axis 2) is inserted at p
InsertShift(cells, axis, p) ==
    AsMap([k \in { IF q[axis] >= p THEN [q EXCEPT ![axis] = @ + 1] ELSE q :
                     q \in DOMAIN cells } |->
              IF k[axis] > p THEN cells[[k EXCEPT ![axis] = @ - 1]] ELSE cells[k]])

\* Keys of a cell map after row or column p is removed
RemoveShift(cells, axis, p) ==
    AsMap([k \in { IF q[axis] > p THEN [q EXCEPT ![axis] = @ - 1] ELSE q :
                     q \in { q0 \in DOMAIN cells : q0[axis] # p } } |->
              IF k[axis] >= p THEN cells[[k EXCEPT ![axis] = @ + 1]] ELSE cells[k]])

\* hot.alter('insert_row_below', index): one empty row below row index
insert_row_below(data, index) ==
    LET p == IF index >= countRows(data) THEN countRows(data) ELSE index + 1
    IN  [rowLen |-> InsertAt(data.rowLen, p, countCols(data)),
         cells  |-> InsertShift(data.cells, 1, p)]

\* hot.alter('insert_col_start', index): one empty column before column index
insert_col_start(data, index) ==
    LET p == IF index >= countCols(data) THEN countCols(data) ELSE index
    IN  [rowLen |-> AsSeq([i \in DOMAIN data.rowLen |-> data.rowLen[i] + 1]),
         cells  |-> InsertShift(data.cells, 2, p)]

\* The row below row index removed instead
remove_row_below(data, index) ==
    IF index + 1 >= countRows(data) THEN data
    ELSE [rowLen |-> RemoveAt(data.rowLen, index + 1),
          cells  |-> RemoveShift(data.cells, 1, index + 1)]

\* hot.alter('remove_row', index)
remove_row(data, index) ==
    IF index >= countRows(data) THEN data
    ELSE [rowLen |-> RemoveAt(data.rowLen, index),
          cells  |-> RemoveShift(data.cells, 1, index)]

\* hot.alter('remove_col', index)
remove_col(data, index) ==
    IF index >= countCols(data) THEN data
    ELSE [rowLen |-> AsSeq([i \in DOMAIN data.rowLen |-> data.rowLen[i] - 1]),
          cells  |-> RemoveShift(data.cells, 2, index)]

\* -------------------------------------------------------------------------
\* Parser
\* -------------------------------------------------------------------------

\* "at least 100 rows and 26 columns for editing room"
MinRows == 100

MinCols == 26

\* The conversion without the room for editing: the grid is the used range
\* with one more row and column
convertSheetToDataUnpadded(worksheet) ==
    LET maxRow == worksheet.ref.r + 1
        maxCol == worksheet.ref.c + 1
        inGrid == { a \in DOMAIN worksheet.cells :
                      /\ parseCellReference(a).row <= maxRow
                      /\ parseCellReference(a).col <= maxCol }
        shown  == { a \in inGrid : worksheet.cells[a].v # Empty }
    IN  [data |->
            [rowLen |-> AsSeq([i \in 1..(maxRow + 1) |-> maxCol + 1]),
             cells  |-> AsMap([k \in { << parseCellReference(a).row,
                                          parseCellReference(a).col >> : a \in shown } |->
                                  worksheet.cells[encode_cell(k[1], k[2])].v])],
         formulas |->
            AsMap([a \in { a0 \in inGrid : worksheet.cells[a0].f # Empty } |->
                      << "=" >> \o worksheet.cells[a].f])]

\* A worksheet of the file is [ref, cells]: ref is the end of '!ref' (0-based
\* row r and column c) and cells maps an A1 address to [f, v]; f or v is
\* Empty when the cell has none.
convertSheetToData(worksheet) ==
    LET maxRow == Max(worksheet.ref.r + 1, MinRows)
        maxCol == Max(worksheet.ref.c + 1, MinCols)
        inGrid == { a \in DOMAIN worksheet.cells :
                      /\ parseCellReference(a).row <= maxRow
                      /\ parseCellReference(a).col <= maxCol }
        shown  == { a \in inGrid : worksheet.cells[a].v # Empty }
    IN  [data |->
            [rowLen |-> AsSeq([i \in 1..(maxRow + 1) |-> maxCol + 1]),
             cells  |-> AsMap([k \in { << parseCellReference(a).row,
                                          parseCellReference(a).col >> : a \in shown } |->
                                  worksheet.cells[encode_cell(k[1], k[2])].v])],
         formulas |->
            AsMap([a \in { a0 \in inGrid : worksheet.cells[a0].f # Empty } |->
                      << "=" >> \o worksheet.cells[a].f])]

\* parseExcelFile: the sheets of the normalized workbook
parseExcelFile(file) ==
    AsSeq([i \in DOMAIN file |->
              [name     |-> file[i].name,
               data     |-> convertSheetToData(file[i].ws).data,
               formulas |-> convertSheetToData(file[i].ws).formulas]])

\* -------------------------------------------------------------------------
\* Changes
\* -------------------------------------------------------------------------

\* A change as the server builds it. A field the change does not carry is
\* Empty (strings), "" (sheet) or 0 (numbers): the applicators test these
\* fields for truthiness only.
Change(type, sheet) ==
    [type |-> type, sheet |-> sheet, cell |-> Empty, value |-> Empty,
     formula |-> Empty, range |-> Empty, afterColumn |-> Empty,
     header |-> Empty, afterRow |-> 0, row |-> 0]

\* -------------------------------------------------------------------------
\* Spreadsheet.applyChanges (the active sheet, through the grid)
\* -------------------------------------------------------------------------

\* The grid state a change acts on: the bound data array, formulasRef, and
\* whether a change has thrown.
RECURSIVE FormulaRows(_, _, _, _)
\* for (r = start.row; r <= end.row; r++) of applyFormulaToRange
FormulaRows(g, formula, rangeRef, r) ==
    IF r > rangeRef.end.row THEN g
    ELSE LET adjustedFormula == adjustFormulaForRow(formula, r - rangeRef.start.row + 1)
             cellRefStr      == indexToColumnLetter(rangeRef.start.col) \o NumToStr(r + 1)
         IN  FormulaRows(
                 [g EXCEPT !.formulas = With(@, cellRefStr, adjustedFormula),
                           !.data = setDataAtCell(@, r, rangeRef.start.col, adjustedFormula)],
                 formula, rangeRef, r + 1)

\* One iteration of changes.forEach: the switch on change.type
GridChange(g, change) ==
    CASE change.type = "setCellValue" ->
           LET cellRef == parseCellReference(change.cell)
           IN  IF cellRef.ok
               THEN [g EXCEPT !.data = setDataAtCell(@, cellRef.row, cellRef.col, change.value)]
               ELSE g
      [] change.type = "setFormula" ->
           LET cellRef == parseCellReference(change.cell)
           IN  IF cellRef.ok
               THEN [g EXCEPT !.formulas = With(@, change.cell, change.formula),
                              !.data = setDataAtCell(@, cellRef.row, cellRef.col, change.formula)]
               ELSE g
      [] change.type = "insertColumn" ->
           LET colIndex == IF change.afterColumn # Empty
                           THEN LetterCode(change.afterColumn[1])
                           ELSE countCols(g.data)
               inserted == insert_col_start(g.data, colIndex)
           IN  [g EXCEPT !.data = IF change.header # Empty
                                  THEN setDataAtCell(inserted, 0, colIndex, change.header)
                                  ELSE inserted]
      [] change.type = "insertRow" ->
           LET rowIndex == IF change.afterRow # 0 THEN change.afterRow ELSE countRows(g.data)
           IN  [g EXCEPT !.data = insert_row_below(@, rowIndex)]
      [] change.type = "applyFormulaToRange" ->
           LET rangeRef == parseRangeReference(change.range)
           IN  \* start.row or end.row of a null reference: a TypeError
               IF ~rangeRef.start.ok \/ ~rangeRef.end.ok
               THEN [g EXCEPT !.threw = TRUE]
               ELSE FormulaRows(g, change.formula, rangeRef, rangeRef.start.row)
      [] change.type = "deleteColumn" ->
           LET cellRef == parseCellReference(
                              IF change.cell # Empty THEN change.cell ELSE << "A", "1" >>)
           IN  IF cellRef.ok THEN [g EXCEPT !.data = remove_col(@, cellRef.col)] ELSE g
      [] change.type = "deleteRow" ->
           [g EXCEPT !.data = remove_row(@, change.row)]
      [] OTHER -> g

\* changes.forEach(...): in list order, up to the first change that throws
RECURSIVE GridForEach(_, _)
GridForEach(g, changes) ==
    IF changes = << >> \/ g.threw THEN g
    ELSE GridForEach(GridChange(g, Head(changes)), Tail(changes))

\* Spreadsheet.applyChanges(changes) on the grid bound to data
SpreadsheetApplyChanges(data, formulas, changes) ==
    GridForEach([data |-> data, formulas |-> formulas, threw |-> FALSE], changes)

\* -------------------------------------------------------------------------
\* App.applyChanges
\* -------------------------------------------------------------------------

\* One iteration of sheetChanges.forEach inside setWorkbook: a sheet that is
\* not the active one
SheetChange(sheet, change) ==
    LET cellRef == parseCellReference(change.cell)
    IN  IF change.type = "setCellValue" /\ change.cell # Empty /\ cellRef.ok
        THEN [sheet EXCEPT !.data = ArrayWrite(@, cellRef.row, cellRef.col, change.value)]
        ELSE IF change.type = "setFormula" /\ change.cell # Empty
                /\ change.formula # Empty /\ cellRef.ok
        THEN [sheet EXCEPT !.data = ArrayWrite(@, cellRef.row, cellRef.col, change.formula),
                           !.formulas = With(@, change.cell, change.formula)]
        ELSE sheet

RECURSIVE SheetForEach(_, _)
SheetForEach(sheet, sheetChanges) ==
    IF sheetChanges = << >> THEN sheet
    ELSE SheetForEach(SheetChange(sheet, Head(sheetChanges)), Tail(sheetChanges))

\* workbook.sheets.findIndex(s => s.name === sheetName); 0 stands for -1
\* (sheet indexes are 1-based in the model)
findIndex(sheets, sheetName) ==
    IF \E i \in DOMAIN sheets : sheets[i].name = sheetName
    THEN CHOOSE i \in DOMAIN sheets :
            /\ sheets[i].name = sheetName
            /\ \A j \in DOMAIN sheets : sheets[j].name = sheetName => i <= j
    ELSE 0

\* change.sheet || workbook.sheets[activeSheet].name
SheetNameOf(change, sheets, active) ==
    IF change.sheet # "" THEN change.sheet ELSE sheets[active].name

\* GroupBySheet with changesBySheet[sheetName].unshift(change) for push
RECURSIVE GroupBySheetUnshift(_, _, _, _)
GroupBySheetUnshift(changes, sheets, active, groups) ==
    IF changes = << >> THEN groups
    ELSE LET sheetName == IF Head(changes).sheet # "" THEN Head(changes).sheet
                          ELSE sheets[active].name
             at == { i \in DOMAIN groups : groups[i][1] = sheetName }
         IN  GroupBySheetUnshift(Tail(changes), sheets, active,
                 IF at = {}
                 THEN Append(groups, << sheetName, << Head(changes) >> >>)
                 ELSE [groups EXCEPT ![CHOOSE i \in at : TRUE] =
                          << sheetName, << Head(changes) >> \o @[2] >>])

\* changesBySheet: the groups as << sheetName, sheetChanges >> in the order
\* Object.entries lists them (the order the names were first seen)
RECURSIVE GroupBySheet(_, _, _, _)
GroupBySheet(changes, sheets, active, groups) ==
    IF changes = << >> THEN groups
    ELSE LET sheetName == SheetNameOf(Head(changes), sheets, active)
             at == { i \in DOMAIN groups : groups[i][1] = sheetName }
         IN  GroupBySheet(Tail(changes), sheets, active,
                 IF at = {}
                 THEN Append(groups, << sheetName, << Head(changes) >> >>)
                 ELSE [groups EXCEPT ![CHOOSE i \in at : TRUE] =
                          << sheetName, Append(@[2], Head(changes)) >>])

changesBySheet(changes, sheets, active) == GroupBySheet(changes, sheets, active, << >>)

\* The application state App.applyChanges acts on: the workbook's sheets
\* (the active sheet's data is the array the grid is bound to), formulasRef,
\* the number of Spreadsheet.applyChanges calls made, and whether one threw.
RECURSIVE GroupsForEach(_, _, _)
\* Object.entries(changesBySheet).forEach(...)
GroupsForEach(a, groups, active) ==
    IF groups = << >> \/ a.threw THEN a
    ELSE LET sheetName    == Head(groups)[1]
             sheetChanges == Head(groups)[2]
             sheetIndex   == findIndex(a.sheets, sheetName)
             g == SpreadsheetApplyChanges(a.sheets[sheetIndex].data, a.formulasRef,
                                          sheetChanges)
         IN  GroupsForEach(
                 IF sheetIndex = 0 THEN a
                 ELSE IF sheetIndex = active
                 THEN [a EXCEPT !.sheets[sheetIndex].data = g.data,
                                !.formulasRef = g.formulas,
                                !.gridCalls = @ + 1,
                                !.threw = g.threw]
                 ELSE [a EXCEPT !.sheets[sheetIndex] = SheetForEach(@, sheetChanges)],
                 Tail(groups), active)

AppApplyChanges(sheets, formulas, active, changes) ==
    GroupsForEach([sheets |-> sheets, formulasRef |-> formulas,
                   gridCalls |-> 0, threw |-> FALSE],
                  changesBySheet(changes, sheets, active), active)

\* -------------------------------------------------------------------------
\* Exporter
\* -------------------------------------------------------------------------

\* The value HyperFormula computes for a formula cell: hot.getData() returns
\* computed values, not the formula text. The engine is a library; its
\* result is kept opaque.
Calculated == << "#" >>

\* Spreadsheet.getData(): hot.getData()
getData(data) ==
    [data EXCEPT !.cells = AsMap([k \in DOMAIN data.cells |->
                                     IF IsFormula(data.cells[k]) THEN Calculated
                                     ELSE data.cells[k]])]

\* The sheet index DownloadButton.handleDownload passes to getExportData
\* (the literal 0; sheet indexes are 1-based in the model)
DownloadSheetIndex == 1

\* getExportData(spreadsheetRef, workbook, activeSheet)
getExportData(sheets, formulas, active, sheetIndex) ==
    [sheets EXCEPT ![sheetIndex] =
        [@ EXCEPT !.data = getData(sheets[active].data), !.formulas = formulas]]

\* handleDownload: getExportData(spreadsheetRef, workbook, 0)
handleDownloadWorkbook(sheets, formulas, active) ==
    getExportData(sheets, formulas, active, DownloadSheetIndex)

InArray(data, r, c) == r >= 0 /\ r < Len(data.rowLen) /\ c >= 0 /\ c < data.rowLen[r + 1]

\* The body of downloadExcel's loops for the cell at cellRef; wsCell is the
\* cell of the original worksheet, or NoCell
NoCell == [f |-> Empty, v |-> Empty, none |-> TRUE]

FileCell(f, v) == [f |-> f, v |-> v, none |-> FALSE]

PatchCell(wsCell, value, formula) ==
    IF value = Empty /\ wsCell.none THEN NoCell
    ELSE IF IsFormula(formula)
    THEN FileCell(SubSeq(formula, 2, Len(formula)), Empty)
    ELSE IF value # Empty
    THEN FileCell(IF wsCell.f # Empty /\ formula = Empty THEN Empty ELSE wsCell.f, value)
    ELSE wsCell

\* downloadExcel for one sheet: the worksheet of the original file, patched
\* with the sheet's data and formulas. Only addresses that hold something in
\* the data or in the original worksheet can change; the loops skip the rest.
PatchSheet(ws, sheet) ==
    LET touched == { encode_cell(k[1], k[2]) :
                       k \in { k0 \in DOMAIN sheet.data.cells :
                                 InArray(sheet.data, k0[1], k0[2]) } }
                   \cup { a \in DOMAIN ws.cells :
                            InArray(sheet.data, parseCellReference(a).row,
                                    parseCellReference(a).col) }
        Old(a)  == IF a \in DOMAIN ws.cells
                   THEN FileCell(ws.cells[a].f, ws.cells[a].v) ELSE NoCell
        New(a)  == IF a \in touched
                   THEN PatchCell(Old(a),
                                  GetCell(sheet.data, parseCellReference(a).row,
                                          parseCellReference(a).col),
                                  IF a \in DOMAIN sheet.formulas
                                  THEN sheet.formulas[a] ELSE Empty)
                   ELSE Old(a)
        newMaxRow == Len(sheet.data.rowLen)
        newMaxCol == countCols(sheet.data)
    IN  [ref   |-> [r |-> Max(ws.ref.r, newMaxRow - 1), c |-> Max(ws.ref.c, newMaxCol - 1)],
         cells |-> AsMap([a \in { a0 \in DOMAIN ws.cells \cup touched : ~New(a0).none } |->
                             [f |-> New(a).f, v |-> New(a).v]])]

\* downloadExcel(workbook, ...): every sheet of the workbook that the
\* original file has, patched into the original file
downloadExcel(file, sheets) ==
    AsSeq([i \in DOMAIN file |->
              LET at == findIndex(sheets, file[i].name)
              IN  [name |-> file[i].name,
                   ws   |-> IF at = 0 THEN file[i].ws
                            ELSE PatchSheet(file[i].ws, sheets[at])]])

\* -------------------------------------------------------------------------
\* The server's tools (server/index.js)
\* -------------------------------------------------------------------------

\* How many cells of the first row get_sheet_info reports as headers
HeaderPreview == 20

\* The input of a tool call. A field the call does not carry is Empty
\* (strings), "" (sheet) or 0 (numbers).
ToolInput(sheet) ==
    [sheet |-> sheet, cell |-> Empty, value |-> Empty, formula |-> Empty,
     range |-> Empty, afterColumn |-> Empty, header |-> Empty, afterRow |-> 0,
     row |-> 0, column |-> Empty]

\* getSpreadsheetData(): the active sheet from the grid, the others as stored
getSpreadsheetData(sheets, formulas, active) ==
    [sheets |-> AsSeq([idx \in DOMAIN sheets |->
                    [name     |-> sheets[idx].name,
                     data     |-> IF idx = active THEN getData(sheets[idx].data)
                                  ELSE sheets[idx].data,
                     formulas |-> IF idx = active THEN formulas
                                  ELSE sheets[idx].formulas]]),
     activeSheet |-> active]

\* The server's columnToIndex
columnToIndex(col) == LetterSum(col) - 1

\* parseRange: range.match(/^([A-Z]+)(\d+):([A-Z]+)(\d+)$/), ok FALSE for null
parseRange(range) ==
    LET parts == SplitColon(range, Empty)
        k1    == IF Len(parts) = 2 THEN CellMatch(parts[1]) ELSE 0
        k2    == IF Len(parts) = 2 THEN CellMatch(parts[2]) ELSE 0
    IN  IF k1 = 0 \/ k2 = 0
        THEN [ok |-> FALSE, startCol |-> 0, startRow |-> 0, endCol |-> 0, endRow |-> 0]
        ELSE [ok       |-> TRUE,
              startCol |-> columnToIndex(SubSeq(parts[1], 1, k1)),
              startRow |-> parseInt(SubSeq(parts[1], k1 + 1, Len(parts[1]))) - 1,
              endCol   |-> columnToIndex(SubSeq(parts[2], 1, k2)),
              endRow   |-> parseInt(SubSeq(parts[2], k2 + 1, Len(parts[2]))) - 1]

\* sheets.find(s => s.name === input.sheet) || currentSheet
FindSheet(spreadsheetData, sheetName) ==
    LET at == findIndex(spreadsheetData.sheets, sheetName)
    IN  spreadsheetData.sheets[IF at = 0 THEN spreadsheetData.activeSheet ELSE at]

\* The rows get_cell_range reads from a sheet
ReadRange(sheet, range) ==
    LET last == IF range.endRow < countRows(sheet.data) - 1 THEN range.endRow
                ELSE countRows(sheet.data) - 1
    IN  AsSeq([i \in 1..Max(0, last - range.startRow + 1) |->
            AsSeq([j \in 1..Max(0, range.endCol - range.startCol + 1) |->
                GetCell(sheet.data, range.startRow + i - 1, range.startCol + j - 1)])])

\* The output of get_sheet_info
SheetInfo(spreadsheetData) ==
    AsSeq([idx \in DOMAIN spreadsheetData.sheets |->
        LET s == spreadsheetData.sheets[idx]
        IN  [name     |-> s.name,
             isActive |-> idx = spreadsheetData.activeSheet,
             rows     |-> countRows(s.data),
             columns  |-> countCols(s.data),
             headers  |-> AsSeq([c \in 1..(IF countCols(s.data) < HeaderPreview
                                           THEN countCols(s.data) ELSE HeaderPreview) |->
                                    GetCell(s.data, 0, c - 1)])]])

\* The tools that answer with a change
ChangingTools ==
    { "set_cell_value", "set_formula", "insert_column", "insert_row",
      "apply_formula_to_range", "delete_column", "delete_row" }

\* executeToolOnServer(toolName, input, spreadsheetData): the result object,
\* with a change field for the tools that return one
executeToolOnServer(toolName, input, spreadsheetData) ==
    CASE toolName = "get_sheet_info" ->
           [output |-> [sheets |-> SheetInfo(spreadsheetData)]]
      [] toolName = "get_cell_range" ->
           IF ~parseRange(input.range).ok
           THEN [output |-> [error |-> << "Invalid range format" >>]]
           ELSE [output |-> [range |-> input.range,
                             data  |-> ReadRange(FindSheet(spreadsheetData, input.sheet),
                                                 parseRange(input.range))]]
      [] toolName = "set_cell_value" ->
           [output |-> [success |-> TRUE, message |-> << "Set", input.cell, input.value >>],
            change |-> [Change("setCellValue", input.sheet) EXCEPT
                           !.cell = input.cell, !.value = input.value]]
      [] toolName = "set_formula" ->
           [output |-> [success |-> TRUE,
                        message |-> << "Set formula in", input.cell, input.formula >>],
            change |-> [Change("setFormula", input.sheet) EXCEPT
                           !.cell = input.cell, !.formula = input.formula]]
      [] toolName = "insert_column" ->
           [output |-> [success |-> TRUE,
                        message |-> << "Inserted column after", input.afterColumn >>],
            change |-> [Change("insertColumn", input.sheet) EXCEPT
                           !.afterColumn = input.afterColumn, !.header = input.header]]
      [] toolName = "insert_row" ->
           [output |-> [success |-> TRUE,
                        message |-> << "Inserted row after", input.afterRow >>],
            change |-> [Change("insertRow", input.sheet) EXCEPT !.afterRow = input.afterRow]]
      [] toolName = "apply_formula_to_range" ->
           [output |-> [success |-> TRUE, message |-> << "Applied formula to", input.range >>],
            change |-> [Change("applyFormulaToRange", input.sheet) EXCEPT
                           !.range = input.range, !.formula = input.formula]]
      [] toolName = "delete_column" ->
           [output |-> [success |-> TRUE, message |-> << "Deleted column", input.column >>],
            change |-> [Change("deleteColumn", input.sheet) EXCEPT
                           !.cell = input.column \o << "1" >>]]
      [] toolName = "delete_row" ->
           [output |-> [success |-> TRUE, message |-> << "Deleted row", input.row >>],
            change |-> [Change("deleteRow", input.sheet) EXCEPT !.row = input.row - 1]]
      [] OTHER ->
           [output |-> [error |-> << "Unknown tool", toolName >>]]

\* spreadsheetData after executeToolOnServer(toolName, input, spreadsheetData)
\* has run: the function reads sheets and never assigns into them
DataAfterWrites(toolName, input, spreadsheetData) ==
    IF toolName = "set_cell_value" /\ parseCellReference(input.cell).ok
    THEN LET at == IF findIndex(spreadsheetData.sheets, input.sheet) = 0
                   THEN spreadsheetData.activeSheet
                   ELSE findIndex(spreadsheetData.sheets, input.sheet)
         IN  [spreadsheetData EXCEPT !.sheets[at].data =
                 setDataAtCell(@, parseCellReference(input.cell).row,
                               parseCellReference(input.cell).col, input.value)]
    ELSE spreadsheetData

DataAfterTool(toolName, input, spreadsheetData) == spreadsheetData

\* -------------------------------------------------------------------------
\* State
\* -------------------------------------------------------------------------

VARIABLES
    originalFile,       \* workbook.originalArrayBuffer: the sheets of the uploaded file
    workbook,           \* App's workbook.sheets; the grid is bound to the active sheet's data
    activeSheet,        \* App's activeSheet (1-based)
    formulasRef,        \* Spreadsheet's formulasRef.current
    isApplyingChanges,  \* Spreadsheet's isApplyingChanges.current
    timers,             \* pending setTimeout callbacks of applyChanges
    exported,           \* the sheets of the downloaded file, << >> before the download
    steps,              \* operations performed so far
    lastWritten,        \* history: what the last change that wrote a cell wrote
    formulaHome,        \* history: the tracked formulas, moved with their rows and columns
    orderKept,          \* history: the last applyChanges equalled the in-order application
    orderMattered,      \* history: the last change list, reversed, had another result
    inactiveFull,       \* history: the last applyChanges applied every operation type
    keptFormulas,       \* history: the formulas tracked for a sheet when it was last active
    editTracked,        \* history: the last user edit was recorded in formulasRef
    op,                 \* history: the last tool calls applied and the grid before them
    apiKey,             \* whether process.env.ANTHROPIC_API_KEY is set
    messages,           \* ChatPanel's messages
    conversationHistory, \* ChatPanel's conversationHistory
    isLoading,          \* ChatPanel's isLoading
    toServer,           \* the POST /api/chat request in flight
    server,             \* the /api/chat handler: its position and its locals
    toClient,           \* the HTTP response in flight
    req                 \* history of the chat request

gridVars == << originalFile, workbook, activeSheet, formulasRef, isApplyingChanges,
               timers, exported, steps >>

historyVars == << lastWritten, formulaHome, orderKept, orderMattered, inactiveFull,
                  keptFormulas, editTracked, op >>

chatVars == << apiKey, messages, conversationHistory, isLoading, toServer, server,
               toClient, req >>

vars == << gridVars, historyVars, chatVars >>

\* -------------------------------------------------------------------------
\* Inputs of the model
\* -------------------------------------------------------------------------

A1 == << "A", "1" >>
A2 == << "A", "2" >>
B1 == << "B", "1" >>

\* Worksheets of the uploaded file
WsData ==
    [ref   |-> [r |-> 1, c |-> 1],
     cells |-> (A1 :> [f |-> Empty, v |-> << "1" >>])
               @@ (B1 :> [f |-> Empty, v |-> << "7" >>])
               @@ (A2 :> [f |-> << "B", "1" >>, v |-> << "7" >>])]

WsOther ==
    [ref   |-> [r |-> 0, c |-> 0],
     cells |-> (A1 :> [f |-> Empty, v |-> << "9" >>])]

Files ==
    { << [name |-> "S1", ws |-> w1], [name |-> "S2", ws |-> w2] >> :
        w1 \in {WsData, WsOther}, w2 \in {WsData, WsOther} }

\* The uploaded files of the chat sessions: the first sheet has a formula
ChatFiles == { file \in Files : file[1].ws = WsData }

\* The changes the assistant may send, for a sheet name ("" is no name)
ChangesFor(sheet) ==
    { [Change("setCellValue", sheet) EXCEPT !.cell = A2, !.value = << "5" >>],
      [Change("setFormula", sheet) EXCEPT !.cell = A2, !.formula = << "=", "B", "1" >>],
      [Change("applyFormulaToRange", sheet) EXCEPT
          !.range = << "A", "1", ":", "A", "2" >>, !.formula = << "=", "B", "1" >>],
      [Change("insertRow", sheet) EXCEPT !.afterRow = 1],
      [Change("insertColumn", sheet) EXCEPT !.afterColumn = << "A" >>, !.header = << "H" >>],
      [Change("deleteRow", sheet) EXCEPT !.row = 0],
      [Change("deleteColumn", sheet) EXCEPT !.cell = A1] }

Changes == ChangesFor("") \cup ChangesFor("S2")

\* Change lists of length 1..n
RECURSIVE ChangeLists(_)
ChangeLists(n) ==
    IF n = 0 THEN { }
    ELSE LET shorter == ChangeLists(n - 1)
         IN  { << c >> : c \in Changes } \cup shorter
             \cup { Append(l, c) : l \in { l0 \in shorter : Len(l0) = n - 1 }, c \in Changes }

\* What the user may type into a cell
UserValues == { Empty, << "5" >>, << "=", "B", "1" >> }

\* -------------------------------------------------------------------------
\* History of the active sheet (what the claims speak about, not program state)
\* -------------------------------------------------------------------------

\* A formula map keyed by A1 addresses as a map keyed by <<row, col>>, and back
ByPosition(formulas) ==
    AsMap([k \in { << parseCellReference(a).row, parseCellReference(a).col >> :
                     a \in DOMAIN formulas } |-> formulas[encode_cell(k[1], k[2])]])

ByAddress(cells) ==
    AsMap([a \in { encode_cell(k[1], k[2]) : k \in DOMAIN cells } |->
              cells[<< parseCellReference(a).row, parseCellReference(a).col >>]])

\* The addresses applyFormulaToRange writes
RangeAddresses(rangeRef) ==
    { indexToColumnLetter(rangeRef.start.col) \o NumToStr(r + 1) :
        r \in rangeRef.start.row .. rangeRef.end.row }

\* lastWritten after a change: for the addresses the change wrote, the
\* formula it wrote, or Empty when it wrote a value. A structural change
\* moves cells; the record starts afresh.
WrittenBy(lw, change) ==
    LET cellRef  == parseCellReference(change.cell)
        rangeRef == parseRangeReference(change.range)
    IN  CASE change.type = "setCellValue" /\ cellRef.ok ->
               With(lw, encode_cell(cellRef.row, cellRef.col), Empty)
          [] change.type = "setFormula" /\ cellRef.ok ->
               With(lw, encode_cell(cellRef.row, cellRef.col), change.formula)
          [] change.type = "applyFormulaToRange" /\ rangeRef.start.ok /\ rangeRef.end.ok ->
               AsMap([a \in DOMAIN lw \cup RangeAddresses(rangeRef) |->
                         IF a \in RangeAddresses(rangeRef)
                         THEN adjustFormulaForRow(change.formula,
                                  parseCellReference(a).row - rangeRef.start.row + 1)
                         ELSE lw[a]])
          [] change.type \in {"insertRow", "insertColumn", "deleteRow", "deleteColumn"} ->
               << >>
          [] OTHER -> lw

\* formulaHome after a change applied to the grid bound to data: a formula
\* written by the change is recorded as the code records it, and a
\* structural change moves every entry with the row or column it belongs to
\* and drops the entries of a removed row or column.
HomeAfter(home, data, change) ==
    LET cellRef  == parseCellReference(change.cell)
        rangeRef == parseRangeReference(change.range)
        rowIndex == IF change.afterRow # 0 THEN change.afterRow ELSE countRows(data)
        colIndex == IF change.afterColumn # Empty
                    THEN LetterCode(change.afterColumn[1]) ELSE countCols(data)
        delCol   == parseCellReference(IF change.cell # Empty THEN change.cell ELSE A1)
    IN  CASE change.type = "setFormula" /\ cellRef.ok ->
               With(home, change.cell, change.formula)
          [] change.type = "applyFormulaToRange" /\ rangeRef.start.ok /\ rangeRef.end.ok ->
               AsMap([a \in DOMAIN home \cup RangeAddresses(rangeRef) |->
                         IF a \in RangeAddresses(rangeRef)
                         THEN adjustFormulaForRow(change.formula,
                                  parseCellReference(a).row - rangeRef.start.row + 1)
                         ELSE home[a]])
          [] change.type = "insertRow" ->
               ByAddress(InsertShift(ByPosition(home), 1,
                   IF rowIndex >= countRows(data) THEN countRows(data) ELSE rowIndex + 1))
          [] change.type = "insertColumn" ->
               ByAddress(InsertShift(ByPosition(home), 2,
                   IF colIndex >= countCols(data) THEN countCols(data) ELSE colIndex))
          [] change.type = "deleteRow" /\ change.row < countRows(data) ->
               ByAddress(RemoveShift(ByPosition(home), 1, change.row))
          [] change.type = "deleteColumn" /\ delCol.ok /\ delCol.col < countCols(data) ->
               ByAddress(RemoveShift(ByPosition(home), 2, delCol.col))
          [] OTHER -> home

\* The history along Spreadsheet.applyChanges(changes)
RECURSIVE HistoryForEach(_, _)
HistoryForEach(h, changes) ==
    IF changes = << >> \/ h.g.threw THEN h
    ELSE LET g == GridChange(h.g, Head(changes))
         IN  HistoryForEach(
                 IF g.threw THEN [h EXCEPT !.g = g]
                 ELSE [g    |-> g,
                       lw   |-> WrittenBy(h.lw, Head(changes)),
                       home |-> HomeAfter(h.home, h.g.data, Head(changes))],
                 Tail(changes))

Reverse(seq) == AsSeq([i \in DOMAIN seq |-> seq[Len(seq) + 1 - i]])

\* The changes of a list that target sheet i
ChangesOf(changes, sheets, active, i) ==
    SelectSeq(changes, LAMBDA c : findIndex(sheets, SheetNameOf(c, sheets, active)) = i)

\* Sheet i and formulasRef after the changes that target sheet i are applied
\* one after another in list order, by the applicator of that sheet
InOrder(sheets, formulas, active, changes, i) ==
    IF i = active
    THEN LET g == SpreadsheetApplyChanges(sheets[i].data, formulas,
                                          ChangesOf(changes, sheets, active, i))
         IN  [sheet |-> [sheets[i] EXCEPT !.data = g.data], formulasRef |-> g.formulas]
    ELSE [sheet |-> SheetForEach(sheets[i], ChangesOf(changes, sheets, active, i)),
          formulasRef |-> formulas]

\* Sheet i after every change that targets it is applied to its data and
\* formula map, whatever its operation type
EveryOperation(sheets, active, changes, i) ==
    LET g == GridForEach([data |-> sheets[i].data, formulas |-> sheets[i].formulas,
                          threw |-> FALSE],
                         ChangesOf(changes, sheets, active, i))
    IN  [sheets[i] EXCEPT !.data = g.data, !.formulas = g.formulas]

\* -------------------------------------------------------------------------
\* The editing session: upload, edits, assistant changes, download
\* -------------------------------------------------------------------------

\* handleFileUpload: the parsed workbook with sheet 0 active; the Spreadsheet
\* mounts and copies the sheet's formulas into formulasRef
\* No tool calls applied yet
NoOp == [calls |-> << >>, changes |-> << >>, data |-> << >>, formulas |-> << >>]

InitGrid(files) ==
    /\ originalFile \in files
    /\ workbook = parseExcelFile(originalFile)
    /\ activeSheet = 1
    /\ formulasRef = parseExcelFile(originalFile)[1].formulas
    /\ isApplyingChanges = FALSE
    /\ timers = 0
    /\ exported = << >>
    /\ steps = 0
    /\ lastWritten = << >>
    /\ formulaHome = parseExcelFile(originalFile)[1].formulas
    /\ orderKept = TRUE
    /\ orderMattered = FALSE
    /\ inactiveFull = TRUE
    /\ keptFormulas = AsSeq([i \in DOMAIN originalFile |->
                                parseExcelFile(originalFile)[i].formulas])
    /\ editTracked = TRUE
    /\ op = NoOp

\* The chat request not yet made
NoRequest ==
    [submitted |-> FALSE, done |-> FALSE, failed |-> FALSE, called |-> << >>,
     stops |-> << >>, llmCalls |-> 0, responses |-> 0, applied |-> << >>,
     uploaded |-> << >>, before |-> << >>]

\* The chat panel with an empty conversation
InitChatPanel ==
    /\ isLoading = FALSE
    /\ toServer = << >>
    /\ server = [pc |-> "idle"]
    /\ toClient = << >>
    /\ req = NoRequest

Init ==
    /\ InitGrid(Files)
    /\ InitChatPanel
    /\ apiKey = TRUE
    /\ messages = << >>
    /\ conversationHistory = << >>

\* The setTimeout callbacks scheduled without the one of a call that threw
TimersSetUnlessThrew(gridCalls, threw) == IF threw THEN gridCalls - 1 ELSE gridCalls

\* finally { setTimeout(...) }: one callback for every call of
\* Spreadsheet.applyChanges, also for a call that threw
TimersSet(gridCalls, threw) == gridCalls

\* The state after App.applyChanges has given a, with the history: b is the
\* outcome for the reversed list, h the history of the grid, inOrder and
\* every the sheets the claims compare with
ApplyOutcome(a, b, h, inOrder, every) ==
    /\ workbook' = a.sheets
    /\ formulasRef' = a.formulasRef
    /\ isApplyingChanges' = IF a.gridCalls > 0 THEN TRUE ELSE isApplyingChanges
    /\ timers' = timers + TimersSet(a.gridCalls, a.threw)
    /\ lastWritten' = h.lw
    /\ formulaHome' = h.home
    /\ orderKept' =
          /\ \A i \in DOMAIN workbook : a.sheets[i] = inOrder[i].sheet
          /\ a.formulasRef = inOrder[activeSheet].formulasRef
    /\ orderMattered' = (b.sheets # a.sheets \/ b.formulasRef # a.formulasRef)
    /\ inactiveFull' = \A i \in DOMAIN workbook \ {activeSheet} : a.sheets[i] = every[i]
    /\ UNCHANGED << keptFormulas, editTracked >>

\* The effect of App.applyChanges(changes) on the state, with the history
ApplyEffect(changes) ==
    ApplyOutcome(
        AppApplyChanges(workbook, formulasRef, activeSheet, changes),
        AppApplyChanges(workbook, formulasRef, activeSheet, Reverse(changes)),
        HistoryForEach(
            [g    |-> [data |-> workbook[activeSheet].data,
                       formulas |-> formulasRef, threw |-> FALSE],
             lw   |-> lastWritten,
             home |-> formulaHome],
            ChangesOf(changes, workbook, activeSheet, activeSheet)),
        AsSeq([i \in DOMAIN workbook |->
                  InOrder(workbook, formulasRef, activeSheet, changes, i)]),
        AsSeq([i \in DOMAIN workbook |->
                  EveryOperation(workbook, activeSheet, changes, i)]))

\* The assistant's change list arrives: App.applyChanges(changes)
ApplyChanges ==
    /\ exported = << >>
    /\ \E changes \in ChangeLists(MaxSteps - steps) :
          /\ ApplyEffect(changes)
          /\ steps' = steps + Len(changes)
    /\ UNCHANGED << originalFile, activeSheet, exported, chatVars, op >>

\* handleAfterChange for one edited cell
TrackEdit(formulas, row, col, newValue) ==
    LET cellRef == indexToColumnLetter(col) \o NumToStr(row + 1)
    IN  IF IsFormula(newValue) THEN With(formulas, cellRef, newValue)
        ELSE IF cellRef \in DOMAIN formulas /\ formulas[cellRef] # Empty
        THEN Without(formulas, cellRef)
        ELSE formulas

\* The user types newValue into a cell of the grid: Handsontable writes the
\* bound data and calls handleAfterChange with source 'edit'
UserEdit ==
    /\ exported = << >>
    /\ steps < MaxSteps
    /\ \E newValue \in UserValues :
          LET cellRef == parseCellReference(A2)
          IN  /\ workbook' = [workbook EXCEPT ![activeSheet].data =
                                 setDataAtCell(@, cellRef.row, cellRef.col, newValue)]
              /\ formulasRef' = IF isApplyingChanges THEN formulasRef
                                ELSE TrackEdit(formulasRef, cellRef.row, cellRef.col, newValue)
              /\ formulaHome' = IF isApplyingChanges THEN formulaHome
                                ELSE TrackEdit(formulaHome, cellRef.row, cellRef.col, newValue)
              /\ lastWritten' = Without(lastWritten, A2)
              /\ editTracked' = IF IsFormula(newValue)
                                THEN A2 \in DOMAIN formulasRef' /\ formulasRef'[A2] = newValue
                                ELSE A2 \notin DOMAIN formulasRef'
    /\ steps' = steps + 1
    /\ UNCHANGED << originalFile, activeSheet, isApplyingChanges, timers, exported,
                    orderKept, orderMattered, inactiveFull, keptFormulas, op, chatVars >>

\* A setTimeout callback of applyChanges runs
TimerFires ==
    /\ timers > 0
    /\ isApplyingChanges' = FALSE
    /\ timers' = timers - 1
    /\ UNCHANGED << originalFile, workbook, activeSheet, formulasRef, exported, steps,
                    historyVars, chatVars >>

\* handleSheetChange(index): the grid is bound to the other sheet's data and
\* the effect on sheet.name copies its formulas into formulasRef
SwitchSheet ==
    /\ exported = << >>
    /\ steps < MaxSteps
    /\ \E index \in DOMAIN workbook \ {activeSheet} :
          /\ activeSheet' = index
          /\ formulasRef' = workbook[index].formulas
          /\ formulaHome' = workbook[index].formulas
    /\ keptFormulas' = [keptFormulas EXCEPT ![activeSheet] = formulasRef]
    /\ lastWritten' = << >>
    /\ steps' = steps + 1
    /\ UNCHANGED << originalFile, workbook, isApplyingChanges, timers, exported,
                    orderKept, orderMattered, inactiveFull, editTracked, op, chatVars >>

\* DownloadButton.handleDownload; the model follows a session up to its download
Download ==
    /\ exported = << >>
    /\ exported' = downloadExcel(originalFile,
                                 handleDownloadWorkbook(workbook, formulasRef, activeSheet))
    /\ UNCHANGED << originalFile, workbook, activeSheet, formulasRef, isApplyingChanges,
                    timers, steps, historyVars, chatVars >>

Next ==
    \/ ApplyChanges
    \/ UserEdit
    \/ TimerFires
    \/ SwitchSheet
    \/ Download

Spec == Init /\ [][Next]_vars

\* A worksheet with a plain value where WsData has a formula
WsValues ==
    [ref   |-> [r |-> 1, c |-> 0],
     cells |-> (A2 :> [f |-> Empty, v |-> << "3" >>])]

\* Uploaded files whose first sheet has a formula, with every second sheet
RoundTripFiles ==
    { << [name |-> "S1", ws |-> WsData], [name |-> "S2", ws |-> w2] >> :
        w2 \in {WsData, WsOther, WsValues} }

InitRoundTrip ==
    /\ InitGrid(RoundTripFiles)
    /\ InitChatPanel
    /\ apiKey = TRUE
    /\ messages = << >>
    /\ conversationHistory = << >>

\* The editing session of these files
SpecRoundTrip == InitRoundTrip /\ [][Next]_vars

\* -------------------------------------------------------------------------
\* The upload: handleFileUpload, parseExcelFile
\* -------------------------------------------------------------------------

\* The ends of the used ranges of the uploaded worksheets (0-based row and
\* column): a single cell, a small range, ranges at and past the least
\* grid size
UsedRanges ==
    { [r |-> 0, c |-> 0], [r |-> 1, c |-> 1], [r |-> 99, c |-> 25],
      [r |-> 100, c |-> 26], [r |-> 120, c |-> 30] }

\* The cell at the end of the used range: a value, a formula with its
\* computed value, a formula without one
CornerCells ==
    { [f |-> Empty, v |-> << "7" >>],
      [f |-> << "B", "1" >>, v |-> << "7" >>],
      [f |-> << "B", "1" >>, v |-> Empty] }

\* The worksheets XLSX.read may give: A1 and the cell at the end of '!ref'
ParseSheets ==
    { [ref   |-> ref,
       cells |-> (encode_cell(ref.r, ref.c) :> corner)
                 @@ (A1 :> [f |-> Empty, v |-> << "1" >>])] :
        ref \in UsedRanges, corner \in CornerCells }

ParseFiles ==
    { << [name |-> "S1", ws |-> w1], [name |-> "S2", ws |-> w2] >> :
        w1 \in ParseSheets, w2 \in ParseSheets }

\* The app before a file is uploaded: no workbook
InitParse ==
    /\ originalFile \in ParseFiles
    /\ workbook = << >>
    /\ activeSheet = 1
    /\ formulasRef = << >>
    /\ isApplyingChanges = FALSE
    /\ timers = 0
    /\ exported = << >>
    /\ steps = 0
    /\ lastWritten = << >>
    /\ formulaHome = << >>
    /\ orderKept = TRUE
    /\ orderMattered = FALSE
    /\ inactiveFull = TRUE
    /\ keptFormulas = << >>
    /\ editTracked = TRUE
    /\ op = NoOp
    /\ InitChatPanel
    /\ apiKey = TRUE
    /\ messages = << >>
    /\ conversationHistory = << >>

\* handleFileUpload(file): setWorkbook(parseExcelFile(file)),
\* setActiveSheet(0); the grid mounts with the first sheet's formulas
FileUpload ==
    /\ workbook = << >>
    /\ workbook' = parseExcelFile(originalFile)
    /\ activeSheet' = 1
    /\ formulasRef' = parseExcelFile(originalFile)[1].formulas
    /\ formulaHome' = parseExcelFile(originalFile)[1].formulas
    /\ keptFormulas' = AsSeq([i \in DOMAIN originalFile |->
                                 parseExcelFile(originalFile)[i].formulas])
    /\ UNCHANGED << originalFile, isApplyingChanges, timers, exported, steps,
                    lastWritten, orderKept, orderMattered, inactiveFull, editTracked,
                    op, chatVars >>

NextParse == FileUpload

SpecParse == InitParse /\ [][NextParse]_vars

\* -------------------------------------------------------------------------
\* The chat request: ChatPanel.handleSubmit, POST /api/chat, the LLM
\* -------------------------------------------------------------------------

UserMessage == "sum column B"

LLMError == "Overloaded"

RangeA1A2 == << "A", "1", ":", "A", "2" >>

\* The tool calls the LLM may make: every declared tool, get_cell_range
\* also with a malformed range, and a tool the server does not know
ToolCalls ==
    { [name |-> "get_sheet_info", input |-> ToolInput("")],
      [name |-> "get_cell_range", input |-> [ToolInput("") EXCEPT !.range = RangeA1A2]],
      [name |-> "get_cell_range", input |-> [ToolInput("S2") EXCEPT !.range = A1]],
      [name |-> "set_cell_value",
       input |-> [ToolInput("") EXCEPT !.cell = A2, !.value = << "5" >>]],
      [name |-> "set_formula",
       input |-> [ToolInput("S2") EXCEPT !.cell = A2, !.formula = << "=", "B", "1" >>]],
      [name |-> "insert_column",
       input |-> [ToolInput("") EXCEPT !.afterColumn = << "A" >>, !.header = << "H" >>]],
      [name |-> "insert_row", input |-> [ToolInput("") EXCEPT !.afterRow = 1]],
      [name |-> "apply_formula_to_range",
       input |-> [ToolInput("") EXCEPT !.range = RangeA1A2,
                                       !.formula = << "=", "B", "1" >>]],
      [name |-> "delete_column", input |-> [ToolInput("") EXCEPT !.column = << "A" >>]],
      [name |-> "delete_row", input |-> [ToolInput("") EXCEPT !.row = 1]],
      [name |-> "format_cells", input |-> [ToolInput("") EXCEPT !.cell = A1]] }

TextBlock == [type |-> "text", text |-> "Listo"]

ToolUse(call) == [type |-> "tool_use", name |-> call.name, input |-> call.input]

\* The responses of anthropic.messages.create with at most n tool_use
\* blocks: a tool_use response carries at least one, any other response none
LLMResponses(n) ==
    { [stop_reason |-> r, content |-> c] :
        r \in { "end_turn", "max_tokens" }, c \in { << TextBlock >>, << >> } }
    \cup { [stop_reason |-> "tool_use", content |-> c] :
             c \in { << ToolUse(t) >> : t \in { t0 \in ToolCalls : n >= 1 } }
                   \cup { << TextBlock, ToolUse(t) >> : t \in { t0 \in ToolCalls : n >= 1 } }
                   \cup { << ToolUse(t), ToolUse(u) >> :
                            t \in { t0 \in ToolCalls : n >= 2 }, u \in ToolCalls } }

\* response.content.filter(block => block.type === 'tool_use')
toolUseBlocks(content) == SelectSeq(content, LAMBDA block : block.type = "tool_use")

\* pendingChanges with the change of a tool result put in front
CollectChangeInFront(pendingChanges, result) ==
    IF "change" \in DOMAIN result THEN << result.change >> \o pendingChanges
    ELSE pendingChanges

\* if (result.change) pendingChanges.push(result.change)
CollectChange(pendingChanges, result) ==
    IF "change" \in DOMAIN result THEN Append(pendingChanges, result.change)
    ELSE pendingChanges

\* for (const toolUse of toolUseBlocks): the handler's locals after the loop
RECURSIVE RunTools(_, _)
RunTools(srv, blocks) ==
    IF blocks = << >> THEN srv
    ELSE LET toolUse == Head(blocks)
             result  == executeToolOnServer(toolUse.name, toolUse.input, srv.spreadsheetData)
         IN  RunTools(
                 [srv EXCEPT
                     !.toolCalls = Append(@, [tool |-> toolUse.name, input |-> toolUse.input,
                                              result |-> result]),
                     !.pendingChanges = CollectChange(@, result),
                     !.spreadsheetData = DataAfterTool(toolUse.name, toolUse.input, @)],
                 Tail(blocks))

\* The loop condition with every stop reason but end_turn continuing
ContinuesUnlessEndTurn(response) == response.stop_reason # "end_turn"

\* while (response.stop_reason === 'tool_use')
ContinuesLoop(response) == response.stop_reason = "tool_use"

\* textContent?.text || 'Done!'
assistantMessage(response) ==
    LET textContent == SelectSeq(response.content, LAMBDA block : block.type = "text")
    IN  IF textContent # << >> /\ Head(textContent).text # "" THEN Head(textContent).text
        ELSE "Done!"

\* res.json({ message, toolCalls, changes, conversationHistory })
JsonResponse(srv, response) ==
    [status |-> 200,
     body   |-> [message  |-> assistantMessage(response),
                 toolCalls |-> srv.toolCalls,
                 changes  |-> srv.pendingChanges,
                 conversationHistory |->
                     srv.conversationHistory
                     \o << [role |-> "user", content |-> srv.message],
                           [role |-> "assistant", content |-> assistantMessage(response)] >>]]

\* A catch block that answers with what the request had collected
CatchResponseWithChanges(srv, error) ==
    [status |-> 200,
     body   |-> [message |-> error, toolCalls |-> srv.toolCalls,
                 changes |-> srv.pendingChanges,
                 conversationHistory |->
                     srv.conversationHistory
                     \o << [role |-> "user", content |-> srv.message],
                           [role |-> "assistant", content |-> error] >>]]

\* catch (error): res.status(500).json({ error: error.message, details })
CatchResponse(srv, error) ==
    [status |-> 500, body |-> [error |-> error, details |-> "null"]]

\* handleSubmit up to the fetch
Submit ==
    /\ ~isLoading
    /\ ~req.submitted
    /\ messages' = Append(messages, [role |-> "user", content |-> UserMessage])
    /\ isLoading' = TRUE
    /\ toServer' = << [message |-> UserMessage,
                       spreadsheetData |-> getSpreadsheetData(workbook, formulasRef, activeSheet),
                       conversationHistory |-> conversationHistory] >>
    /\ req' = [NoRequest EXCEPT
                  !.submitted = TRUE,
                  !.uploaded = getSpreadsheetData(workbook, formulasRef, activeSheet),
                  !.before = [workbook |-> workbook, formulasRef |-> formulasRef,
                              conversationHistory |-> conversationHistory]]
    /\ UNCHANGED << gridVars, historyVars, apiKey, conversationHistory, server, toClient >>

\* app.post('/api/chat') up to the first anthropic.messages.create
ServerReceive ==
    /\ toServer # << >>
    /\ server.pc = "idle"
    /\ toServer' = << >>
    /\ IF ~apiKey
       THEN /\ toClient' = << [status |-> 500,
                               body |-> [error |-> "ANTHROPIC_API_KEY not configured",
                                         message |-> "Please set ANTHROPIC_API_KEY"]] >>
            /\ server' = server
            /\ req' = [req EXCEPT !.responses = @ + 1]
       ELSE /\ server' = [pc |-> "llm",
                          message |-> Head(toServer).message,
                          spreadsheetData |-> Head(toServer).spreadsheetData,
                          conversationHistory |-> Head(toServer).conversationHistory,
                          toolCalls |-> << >>,
                          pendingChanges |-> << >>]
            /\ toClient' = toClient
            /\ req' = [req EXCEPT !.llmCalls = 1]
    /\ UNCHANGED << gridVars, historyVars, apiKey, messages, conversationHistory, isLoading >>

\* anthropic.messages.create resolves: one round of the tool-use loop with
\* the next call, or the answer
LLMResponds ==
    /\ server.pc = "llm"
    /\ \E response \in LLMResponses(MaxToolCalls - Len(req.called)) :
          IF ContinuesLoop(response)
          THEN /\ server' = RunTools(server, toolUseBlocks(response.content))
               /\ toClient' = toClient
               /\ req' = [req EXCEPT
                             !.called = @ \o toolUseBlocks(response.content),
                             !.stops = Append(@, response.stop_reason),
                             !.llmCalls = @ + 1]
          ELSE /\ server' = [pc |-> "idle"]
               /\ toClient' = << JsonResponse(server, response) >>
               /\ req' = [req EXCEPT
                             !.stops = Append(@, response.stop_reason),
                             !.responses = @ + 1]
    /\ UNCHANGED << gridVars, historyVars, apiKey, messages, conversationHistory, isLoading,
                    toServer >>

\* anthropic.messages.create rejects: the catch block answers
LLMFails ==
    /\ server.pc = "llm"
    /\ server' = [pc |-> "idle"]
    /\ toClient' = << CatchResponse(server, LLMError) >>
    /\ req' = [req EXCEPT !.failed = TRUE, !.responses = @ + 1]
    /\ UNCHANGED << gridVars, historyVars, apiKey, messages, conversationHistory, isLoading,
                    toServer >>

\* handleSubmit from the resolved fetch on
ClientReceive ==
    /\ toClient # << >>
    /\ LET response == Head(toClient)
           data     == Head(toClient).body
       IN  IF response.status \notin 200..299
           THEN /\ messages' = Append(messages,
                        [role |-> "error",
                         content |-> IF data.error # "" THEN data.error
                                     ELSE "Failed to get response"])
                /\ req' = [req EXCEPT !.done = TRUE]
                /\ UNCHANGED << workbook, formulasRef, isApplyingChanges, timers,
                                historyVars, conversationHistory >>
           ELSE /\ IF data.changes # << >>
                   THEN ApplyEffect(data.changes) /\ UNCHANGED op
                   ELSE UNCHANGED << workbook, formulasRef, isApplyingChanges, timers,
                                     historyVars >>
                /\ conversationHistory' = data.conversationHistory
                /\ messages' = Append(messages,
                        [role |-> "assistant", content |-> data.message,
                         toolCalls |-> data.toolCalls])
                /\ req' = [req EXCEPT !.done = TRUE, !.applied = data.changes]
    /\ toClient' = << >>
    /\ isLoading' = FALSE
    /\ UNCHANGED << originalFile, activeSheet, exported, steps, apiKey, toServer, server >>

\* A session with or without an earlier exchange, before a chat request
InitChat ==
    /\ InitGrid(ChatFiles)
    /\ InitChatPanel
    /\ apiKey \in BOOLEAN
    /\ conversationHistory \in
          { << >>, << [role |-> "user", content |-> UserMessage],
                      [role |-> "assistant", content |-> "Done!"] >> }
    /\ messages = IF conversationHistory = << >> THEN << >>
                  ELSE << [role |-> "user", content |-> UserMessage],
                          [role |-> "assistant", content |-> "Done!", toolCalls |-> << >>] >>

NextChat ==
    \/ Submit
    \/ ServerReceive
    \/ LLMResponds
    \/ LLMFails
    \/ ClientReceive
    \/ TimerFires

SpecChat == InitChat /\ [][NextChat]_vars

\* The server handles the request it received and every LLM call settles
SpecChatFair ==
    /\ SpecChat
    /\ WF_vars(ServerReceive)
    /\ WF_vars(LLMResponds \/ LLMFails)

\* -------------------------------------------------------------------------
\* The editing tools applied to the active sheet
\* -------------------------------------------------------------------------

RangeA1B2 == << "A", "1", ":", "B", "2" >>

\* References the parser does not match
BadCell == << "2", "A" >>

BadRange == << "A", "1", ":" >>

ColumnAA == << "A", "A" >>

FormulaC1 == << "=", "C", "1" >>

FormulaLog == << "=", "L", "O", "G", "1", "0", "(", "C", "1", ")" >>

\* The calls of the editing tools the LLM may make for the active sheet
EditCalls ==
    { [name |-> "set_cell_value",
       input |-> [ToolInput("") EXCEPT !.cell = A2, !.value = << "5" >>]],
      [name |-> "set_cell_value",
       input |-> [ToolInput("") EXCEPT !.cell = BadCell, !.value = << "5" >>]],
      [name |-> "apply_formula_to_range",
       input |-> [ToolInput("") EXCEPT !.range = BadRange, !.formula = FormulaC1]],
      [name |-> "apply_formula_to_range",
       input |-> [ToolInput("") EXCEPT !.range = RangeA1B2, !.formula = FormulaC1]],
      [name |-> "apply_formula_to_range",
       input |-> [ToolInput("") EXCEPT !.range = RangeA1A2, !.formula = FormulaLog]],
      [name |-> "insert_row", input |-> [ToolInput("") EXCEPT !.afterRow = 1]],
      [name |-> "insert_column",
       input |-> [ToolInput("") EXCEPT !.afterColumn = << "A" >>, !.header = << "H" >>]],
      [name |-> "insert_column",
       input |-> [ToolInput("") EXCEPT !.afterColumn = ColumnAA, !.header = << "H" >>]],
      [name |-> "delete_row", input |-> [ToolInput("") EXCEPT !.row = 1]],
      [name |-> "delete_row", input |-> [ToolInput("") EXCEPT !.row = 2]],
      [name |-> "delete_column", input |-> [ToolInput("") EXCEPT !.column = << "A" >>]],
      [name |-> "delete_column", input |-> [ToolInput("") EXCEPT !.column = ColumnAA]] }

RECURSIVE EditCallLists(_)
\* The non-empty lists of at most n editing calls
EditCallLists(n) ==
    IF n = 0 THEN { }
    ELSE LET shorter == EditCallLists(n - 1)
         IN  { << c >> : c \in EditCalls } \cup shorter
             \cup { Append(l, c) : l \in { l0 \in shorter : Len(l0) = n - 1 },
                                   c \in EditCalls }

\* pendingChanges of /api/chat after the calls: the change of each tool result
ToolChanges(calls, spreadsheetData) ==
    AsSeq([i \in DOMAIN calls |->
              executeToolOnServer(calls[i].name, calls[i].input, spreadsheetData).change])

\* A chat turn whose tool calls are calls: the changes of the response are
\* handed to App.applyChanges
ApplyTools ==
    /\ \E calls \in EditCallLists(MaxSteps - steps) :
          /\ ApplyEffect(ToolChanges(calls,
                             getSpreadsheetData(workbook, formulasRef, activeSheet)))
          /\ op' = [calls    |-> calls,
                    changes  |-> ToolChanges(calls,
                                    getSpreadsheetData(workbook, formulasRef, activeSheet)),
                    data     |-> workbook[activeSheet].data,
                    formulas |-> formulasRef]
          /\ steps' = steps + Len(calls)
    /\ UNCHANGED << originalFile, activeSheet, exported, chatVars >>

InitOps ==
    /\ InitGrid(ChatFiles)
    /\ InitChatPanel
    /\ apiKey = TRUE
    /\ messages = << >>
    /\ conversationHistory = << >>

NextOps ==
    \/ ApplyTools
    \/ TimerFires

SpecOps == InitOps /\ [][NextOps]_vars

\* Every setTimeout callback that was scheduled runs
SpecOpsFair == SpecOps /\ WF_vars(TimerFires)

\* -------------------------------------------------------------------------
\* Claims about the editing session
\* -------------------------------------------------------------------------

\* C1: last write wins for formula tracking on the active sheet. For every
\* cell written by setCellValue, setFormula or applyFormulaToRange changes,
\* formulasRef has an entry exactly when the last change that wrote the cell
\* wrote a formula, and the entry is that formula.
C1_LastWriteWins ==
    \A a \in DOMAIN lastWritten :
        IF lastWritten[a] # Empty
        THEN a \in DOMAIN formulasRef /\ formulasRef[a] = lastWritten[a]
        ELSE a \notin DOMAIN formulasRef

\* C2: the download writes the live grid and the tracked formulas of the
\* active sheet into that sheet of the exported workbook and every other
\* sheet from its own normalized data, whichever sheet is active.
C2_DownloadKeepsSlots ==
    exported # << >> =>
        exported = downloadExcel(originalFile,
                       getExportData(workbook, formulasRef, activeSheet, activeSheet))

\* The exported cell at address a of a sheet against the data and the
\* formulas downloadExcel was given
ExportedAsGiven(out, sheet, a) ==
    LET value == GetCell(sheet.data, parseCellReference(a).row, parseCellReference(a).col)
    IN  IF a \in DOMAIN sheet.formulas
        THEN /\ a \in DOMAIN out.cells
             /\ out.cells[a].f = SubSeq(sheet.formulas[a], 2, Len(sheet.formulas[a]))
        ELSE IF value # Empty
        THEN /\ a \in DOMAIN out.cells
             /\ out.cells[a].v = value
             /\ out.cells[a].f = Empty
        ELSE a \notin DOMAIN out.cells

\* C3: export by patching the original file reflects the current content of
\* every cell inside a sheet's data grid: the tracked formula without its
\* leading '=' when one is tracked, otherwise the current value, and nothing
\* for a cell that is empty in the current data.
C3_ExportReflectsCells ==
    exported # << >> =>
        LET given == handleDownloadWorkbook(workbook, formulasRef, activeSheet)
        IN  \A i \in DOMAIN given :
               \A a \in DOMAIN exported[i].ws.cells \cup DOMAIN originalFile[i].ws.cells
                        \cup DOMAIN given[i].formulas
                        \cup { encode_cell(k[1], k[2]) : k \in DOMAIN given[i].data.cells } :
                  InArray(given[i].data, parseCellReference(a).row, parseCellReference(a).col)
                     => ExportedAsGiven(exported[i].ws, given[i], a)

\* C4: a change whose target sheet is not the active sheet is applied onto
\* that sheet's data grid and formula map for every operation type.
C4_InactiveEveryOperation == inactiveFull

\* C5: changes are applied in list order: after App.applyChanges every sheet
\* (and formulasRef) is what applying the changes that target the sheet, one
\* after another in the order of the list, gives.
C5_ListOrderKept == orderKept

\* C5 witness: a list whose order matters has been applied in its order
C5_OrderMatteredAndKept == orderMattered /\ orderKept /\ steps > 0

\* C6: under structural edits every key of the tracked formula map stays the
\* address of the cell its formula belongs to: entries move with their rows
\* and columns, and entries of deleted rows and columns are removed.
C6_FormulasFollowCells == formulasRef = formulaHome

\* -------------------------------------------------------------------------
\* Claims about the chat request
\* -------------------------------------------------------------------------

\* The change type each mutating tool stands for
ChangeTypes ==
    ("set_cell_value" :> "setCellValue") @@ ("set_formula" :> "setFormula")
    @@ ("insert_column" :> "insertColumn") @@ ("insert_row" :> "insertRow")
    @@ ("apply_formula_to_range" :> "applyFormulaToRange")
    @@ ("delete_column" :> "deleteColumn") @@ ("delete_row" :> "deleteRow")

\* The mutating tool calls among the calls the LLM made, in their order
MutatingCalls == SelectSeq(req.called, LAMBDA call : call.name \in DOMAIN ChangeTypes)

\* C7: the change list a successful /api/chat response carries has, in tool
\* call order, exactly one change for every mutating tool call the LLM made
\* in the request and none for get_sheet_info, get_cell_range or an unknown
\* tool; toolCalls has one entry for every call, mutating or not.
C7_OneChangePerMutatingCall ==
    \A i \in DOMAIN toClient :
        toClient[i].status = 200 =>
            /\ Len(toClient[i].body.changes) = Len(MutatingCalls)
            /\ \A k \in DOMAIN MutatingCalls :
                  /\ toClient[i].body.changes[k].type = ChangeTypes[MutatingCalls[k].name]
                  /\ toClient[i].body.changes[k].sheet = MutatingCalls[k].input.sheet
            /\ Len(toClient[i].body.toolCalls) = Len(req.called)
            /\ \A k \in DOMAIN req.called :
                  /\ toClient[i].body.toolCalls[k].tool = req.called[k].name
                  /\ toClient[i].body.toolCalls[k].input = req.called[k].input

\* C7 witness: a response to a request with a mutating and a reading call
C7_MixedCallsAnswered ==
    /\ toClient # << >>
    /\ Head(toClient).status = 200
    /\ Len(req.called) = 2
    /\ Len(Head(toClient).body.changes) = 1
    /\ \E k \in DOMAIN req.called : req.called[k].name = "get_sheet_info"

\* C8: executing tools never modifies spreadsheetData: while a request is
\* served the handler holds the uploaded snapshot, and every get_cell_range
\* returned the snapshot's cells, whatever tools ran before it.
C8_ToolsReadOnly ==
    server.pc = "llm" =>
        /\ server.spreadsheetData = req.uploaded
        /\ \A k \in DOMAIN server.toolCalls :
              LET call == server.toolCalls[k]
              IN  call.tool = "get_cell_range" /\ parseRange(call.input.range).ok =>
                     call.result.output.data =
                        ReadRange(FindSheet(req.uploaded, call.input.sheet),
                                  parseRange(call.input.range))

\* C8 witness: get_cell_range read A2 after set_cell_value on A2 in the same
\* request and did not get the value that was set
C8_ReadAfterSet ==
    /\ server.pc = "llm"
    /\ Len(server.toolCalls) = 2
    /\ server.toolCalls[1].tool = "set_cell_value"
    /\ server.toolCalls[1].input.cell = A2
    /\ server.toolCalls[2].tool = "get_cell_range"
    /\ server.toolCalls[2].input.range = RangeA1A2
    /\ server.toolCalls[2].result.output.data[2][1] # server.toolCalls[1].input.value

\* C9: when the LLM call fails the response is a 500 without a changes
\* field, and once the client has handled it no change of the request was
\* applied, the grid and the conversation history are as before the
\* request, and the last chat message is an error message.
C9_FailureAllOrNothing ==
    req.failed =>
        /\ \A i \in DOMAIN toClient :
              /\ toClient[i].status = 500
              /\ "changes" \notin DOMAIN toClient[i].body
        /\ req.done =>
              /\ req.applied = << >>
              /\ workbook = req.before.workbook
              /\ formulasRef = req.before.formulasRef
              /\ conversationHistory = req.before.conversationHistory
              /\ messages[Len(messages)].role = "error"

\* C9 witness: the LLM failed after a mutating tool call had been executed,
\* and the client has handled the response
C9_FailedAfterToolCalls ==
    /\ req.failed
    /\ req.done
    /\ MutatingCalls # << >>

\* The LLM calls of the request against the stop reasons received: one
\* first call, one more for every tool_use, and only the last response may
\* be another stop reason
LoopFollowsStopReason ==
    req.llmCalls > 0 =>
        /\ req.llmCalls =
              1 + Cardinality({ k \in DOMAIN req.stops : req.stops[k] = "tool_use" })
        /\ \A k \in DOMAIN req.stops : k < Len(req.stops) => req.stops[k] = "tool_use"
        /\ toClient # << >> /\ ~req.failed =>
              req.stops # << >> /\ req.stops[Len(req.stops)] # "tool_use"

\* C10: a chat request gets exactly one HTTP response; the tool-use loop
\* makes another LLM call exactly when the previous response stopped with
\* tool_use; and a request sent to the server is answered, the LLM settling
\* every call and ending the tool use.
C10_OneResponseAndLoop ==
    /\ [](req.responses <= 1)
    /\ [](req.done => req.responses = 1)
    /\ [](LoopFollowsStopReason)
    /\ (toServer # << >> ~> req.responses = 1)

\* C10 witness: a request answered after a tool-use round
C10_AnsweredAfterToolRound ==
    /\ req.done
    /\ req.responses = 1
    /\ ~req.failed
    /\ Len(req.stops) = 2
    /\ req.llmCalls = 2

\* -------------------------------------------------------------------------
\* Claims about the editing tools
\* -------------------------------------------------------------------------

\* The reference a change carries is one the parser matches
Parsable(change) ==
    CASE change.type \in { "setCellValue", "setFormula", "deleteColumn" } ->
           parseCellReference(change.cell).ok
      [] change.type = "applyFormulaToRange" ->
           /\ parseRangeReference(change.range).start.ok
           /\ parseRangeReference(change.range).end.ok
      [] OTHER -> TRUE

\* The grid after the changes of the last tool calls whose reference can be
\* parsed have been applied one by one, the others left out
OthersApplied ==
    GridForEach([data |-> op.data, formulas |-> op.formulas, threw |-> FALSE],
                SelectSeq(op.changes, Parsable))

\* C11: a change whose cell or range reference cannot be parsed is skipped
\* without raising, and every other change of the list is applied, also
\* those after it: the grid and the tracked formulas are what the parsable
\* changes alone give.
C11_UnparsableSkipped ==
    op.calls # << >> =>
        /\ workbook[activeSheet].data = OthersApplied.data
        /\ formulasRef = OthersApplied.formulas

\* The last tool calls were all applied and ended with apply_formula_to_range
RangeFilledLast ==
    /\ op.calls # << >>
    /\ \A k \in DOMAIN op.changes : Parsable(op.changes[k])
    /\ op.changes[Len(op.changes)].type = "applyFormulaToRange"

\* The range of the last change
LastRange == parseRangeReference(op.changes[Len(op.changes)].range)

\* C12: applyFormulaToRange applies the formula to the whole target range:
\* after the change every cell between the start and end corners, in every
\* row and every column of the range, holds a formula and has an entry in
\* the tracked formula map.
C12_WholeRangeFilled ==
    RangeFilledLast =>
        \A r \in LastRange.start.row..LastRange.end.row :
            \A c \in LastRange.start.col..LastRange.end.col :
                /\ IsFormula(GetCell(workbook[activeSheet].data, r, c))
                /\ indexToColumnLetter(c) \o NumToStr(r + 1) \in DOMAIN formulasRef
                /\ IsFormula(formulasRef[indexToColumnLetter(c) \o NumToStr(r + 1)])

RECURSIVE ShiftReferences(_, _, _)
\* The formula text from position i with the row number of every cell
\* reference increased by k. A cell reference is a run of column letters
\* followed by a run of digits; letters and digits followed by "(" are a
\* function name, digits alone a number.
ShiftReferences(formula, i, k) ==
    IF i > Len(formula) THEN Empty
    ELSE LET l == PrefixLen(formula, i, TRUE)
             d == PrefixLen(formula, i + l, FALSE)
             n == IF l + d = 0 THEN 1 ELSE l + d
             isCall == i + n <= Len(formula) /\ formula[i + n] = "("
         IN  IF l > 0 /\ d > 0 /\ ~isCall
             THEN SubSeq(formula, i, i + l - 1)
                  \o NumToStr(parseInt(SubSeq(formula, i + l, i + l + d - 1)) + k)
                  \o ShiftReferences(formula, i + n, k)
             ELSE SubSeq(formula, i, i + n - 1) \o ShiftReferences(formula, i + n, k)

\* C13: applyFormulaToRange auto-increments row references: the first row
\* of the range receives the formula pattern unchanged, and the cell k rows
\* below it the pattern with the row number of every cell reference
\* increased by k and nothing else changed (function names, numbers and
\* other tokens stay as they are).
C13_OnlyRowReferencesShift ==
    RangeFilledLast =>
        \A r \in LastRange.start.row..LastRange.end.row :
            GetCell(workbook[activeSheet].data, r, LastRange.start.col)
                = ShiftReferences(op.changes[Len(op.changes)].formula, 1,
                                  r - LastRange.start.row)

\* The last turn made one tool call, the named one
SingleCall(name) == Len(op.calls) = 1 /\ op.calls[1].name = name

\* C14: insert_row with 1-indexed afterRow = n inserts exactly one empty row
\* immediately after row n of the active sheet: rows 1..n keep their
\* content and position, the new row is row n+1, and every row formerly at
\* position n+1 or below moves down by one.
C14_RowInsertedAfter ==
    SingleCall("insert_row") =>
        LET n == op.calls[1].input.afterRow
        IN  /\ countRows(workbook[activeSheet].data) = countRows(op.data) + 1
            /\ \A c \in 0..countCols(op.data) - 1 :
                  /\ \A r \in 0..n - 1 :
                        GetCell(workbook[activeSheet].data, r, c) = GetCell(op.data, r, c)
                  /\ GetCell(workbook[activeSheet].data, n, c) = Empty
                  /\ \A r \in n..countRows(op.data) - 1 :
                        GetCell(workbook[activeSheet].data, r + 1, c)
                            = GetCell(op.data, r, c)

\* C15: insert_column with afterColumn = L inserts exactly one new column
\* immediately after column L, for single-letter and multi-letter L: the
\* new column sits at index columnLetterToIndex(L) + 1, the columns before
\* it keep their place, the others move right by one, and the header given
\* is written into row 1 of the new column.
C15_ColumnInsertedAfter ==
    SingleCall("insert_column") =>
        LET p == columnLetterToIndex(op.calls[1].input.afterColumn) + 1
        IN  /\ countCols(workbook[activeSheet].data) = countCols(op.data) + 1
            /\ GetCell(workbook[activeSheet].data, 0, p) = op.calls[1].input.header
            /\ \A r \in 0..countRows(op.data) - 1 :
                  /\ \A c \in 0..p - 1 :
                        GetCell(workbook[activeSheet].data, r, c) = GetCell(op.data, r, c)
                  /\ r > 0 => GetCell(workbook[activeSheet].data, r, p) = Empty
                  /\ \A c \in p..countCols(op.data) - 1 :
                        GetCell(workbook[activeSheet].data, r, c + 1)
                            = GetCell(op.data, r, c)

\* The grid before the last call of the last turn
BeforeLast ==
    GridForEach([data |-> op.data, formulas |-> op.formulas, threw |-> FALSE],
                SubSeq(op.changes, 1, Len(op.changes) - 1))

\* The last call of the last turn is the named one and was reached
LastCall(name) ==
    /\ op.calls # << >>
    /\ op.calls[Len(op.calls)].name = name
    /\ ~BeforeLast.threw

\* The grid new is the grid old without row index p
RowRemoved(old, new, p) ==
    /\ countRows(new) = countRows(old) - 1
    /\ countCols(new) = countCols(old)
    /\ \A r \in 0..countRows(new) - 1 : \A c \in 0..countCols(old) - 1 :
          GetCell(new, r, c) = GetCell(old, IF r < p THEN r ELSE r + 1, c)

\* The grid new is the grid old without column index p
ColumnRemoved(old, new, p) ==
    /\ countRows(new) = countRows(old)
    /\ countCols(new) = countCols(old) - 1
    /\ \A r \in 0..countRows(old) - 1 : \A c \in 0..countCols(new) - 1 :
          GetCell(new, r, c) = GetCell(old, r, IF c < p THEN c ELSE c + 1)

\* C16: delete_row with 1-indexed row n removes exactly grid row n (index
\* n - 1) of the active sheet and delete_column with column letter L removes
\* exactly column L; all other rows and columns keep their content and
\* relative order. The row or column named is one the grid has.
C16_ExactlyOneRemoved ==
    /\ LastCall("delete_row")
          /\ op.calls[Len(op.calls)].input.row <= countRows(BeforeLast.data) =>
          RowRemoved(BeforeLast.data, workbook[activeSheet].data,
                     op.calls[Len(op.calls)].input.row - 1)
    /\ LastCall("delete_column")
          /\ columnLetterToIndex(op.calls[Len(op.calls)].input.column)
                 < countCols(BeforeLast.data) =>
          ColumnRemoved(BeforeLast.data, workbook[activeSheet].data,
                        columnLetterToIndex(op.calls[Len(op.calls)].input.column))

\* C16 witness: row 2 and then column A were deleted, and the former B1 is
\* now A1
C16_RowAndColumnDeleted ==
    /\ Len(op.calls) = 2
    /\ op.calls[1].name = "delete_row" /\ op.calls[1].input.row = 2
    /\ op.calls[2].name = "delete_column" /\ op.calls[2].input.column = << "A" >>
    /\ GetCell(op.data, 0, 1) = << "7" >>
    /\ GetCell(op.data, 1, 0) # Empty
    /\ GetCell(workbook[activeSheet].data, 0, 0) = << "7" >>
    /\ GetCell(workbook[activeSheet].data, 1, 0) = Empty

\* -------------------------------------------------------------------------
\* Claims about formula tracking across parse, sheet switches, edits, export
\* -------------------------------------------------------------------------

\* Nothing of the workbook differs from what the parser gave
Unedited ==
    /\ workbook = parseExcelFile(originalFile)
    /\ formulasRef = workbook[activeSheet].formulas

\* The formula cells of sheet i of the uploaded file
FormulaCells(i) ==
    { a \in DOMAIN originalFile[i].ws.cells : originalFile[i].ws.cells[a].f # Empty }

\* C17: formulas round-trip through parse and export: a formula with text f
\* read from the file is tracked under its A1 address as "=" followed by f,
\* and every formula cell of a workbook that was not edited is exported
\* with the same formula text at the same address.
C17_FormulasRoundTrip ==
    Unedited =>
        \A i \in DOMAIN originalFile : \A a \in FormulaCells(i) :
            /\ a \in DOMAIN workbook[i].formulas
            /\ workbook[i].formulas[a] = << "=" >> \o originalFile[i].ws.cells[a].f
            /\ exported # << >> =>
                  /\ a \in DOMAIN exported[i].ws.cells
                  /\ exported[i].ws.cells[a].f = originalFile[i].ws.cells[a].f

\* C18: formulas tracked for a sheet while it is the active sheet, set by AI
\* changes or by user edits, are still tracked for that sheet after the user
\* switches to another sheet: the sheet's stored formulas, which the switch
\* back loads and the export writes, have every formula that was tracked
\* when the sheet was left.
C18_FormulasSurviveSwitch ==
    \A i \in DOMAIN workbook \ {activeSheet} : \A a \in DOMAIN keptFormulas[i] :
        /\ a \in DOMAIN workbook[i].formulas
        /\ workbook[i].formulas[a] = keptFormulas[i][a]

\* C19: user edits are always tracked: after every non-programmatic edit of
\* a grid cell the tracked formula map has the new value under the cell's
\* address when it is a string starting with "=", and no entry for the cell
\* otherwise, in every interleaving of user edits with applyChanges calls.
C19_UserEditsTracked == editTracked

\* -------------------------------------------------------------------------
\* Claims about the isApplyingChanges flag
\* -------------------------------------------------------------------------

\* C20: whenever applyChanges sets the isApplyingChanges flag, the flag is
\* eventually reset to false, also when applying one of the changes throws
\* and also when several applyChanges calls are made before the first
\* call's reset timer fires.
C20_FlagEventuallyReset == isApplyingChanges ~> ~isApplyingChanges

\* C20 witness: the flag is set, two reset timers are pending and the
\* second call threw
C20_TwoCallsOneThrew ==
    /\ isApplyingChanges
    /\ timers = 2
    /\ Len(op.changes) = 1
    /\ op.changes[1].type = "applyFormulaToRange"
    /\ ~Parsable(op.changes[1])
    /\ workbook[activeSheet].data = op.data

\* -------------------------------------------------------------------------
\* Claims about the parser
\* -------------------------------------------------------------------------

\* The sheet the parser gave for worksheet ws: a rectangular grid of at
\* least 100 rows and 26 columns that covers the used range and holds the
\* value of every cell of it, and a formula map whose keys are addresses of
\* cells of the grid and whose formulas start with "="
NormalizedSheet(sheet, ws) ==
    /\ \A i \in DOMAIN sheet.data.rowLen : sheet.data.rowLen[i] = sheet.data.rowLen[1]
    /\ countRows(sheet.data) >= 100
    /\ countCols(sheet.data) >= 26
    /\ countRows(sheet.data) > ws.ref.r
    /\ countCols(sheet.data) > ws.ref.c
    /\ \A k \in DOMAIN sheet.data.cells : InArray(sheet.data, k[1], k[2])
    /\ \A a \in DOMAIN ws.cells :
          GetCell(sheet.data, parseCellReference(a).row, parseCellReference(a).col)
              = ws.cells[a].v
    /\ \A a \in DOMAIN sheet.formulas :
          /\ parseCellReference(a).ok
          /\ InArray(sheet.data, parseCellReference(a).row, parseCellReference(a).col)
          /\ IsFormula(sheet.formulas[a])

\* C21: every sheet produced by the parser has a rectangular data grid (all
\* rows the same length) with at least 100 rows and at least 26 columns
\* that covers the worksheet's used range, and every key of its formula map
\* is the address of a cell inside that grid whose formula string starts
\* with "=".
C21_ParserNormalizes ==
    workbook # << >> =>
        \A i \in DOMAIN workbook : NormalizedSheet(workbook[i], originalFile[i].ws)

\* C21 witness: a parsed file whose first sheet has a used range past the
\* least grid size, with a formula in its last cell AE121, and whose second
\* sheet is a single cell
C21_LargeAndSmallSheetParsed ==
    /\ workbook # << >>
    /\ originalFile[1].ws.ref = [r |-> 120, c |-> 30]
    /\ countRows(workbook[1].data) = 122
    /\ countCols(workbook[1].data) = 32
    /\ << "A", "E", "1", "2", "1" >> \in DOMAIN workbook[1].formulas
    /\ workbook[1].formulas[<< "A", "E", "1", "2", "1" >>] = << "=", "B", "1" >>
    /\ originalFile[2].ws.ref = [r |-> 0, c |-> 0]
    /\ countRows(workbook[2].data) = 101
    /\ countCols(workbook[2].data) = 27

=============================================================================
